---- MODULE Spec2Model ----
(***************************************************************************)
(* A model of the continuous change-feed consumer of go-couch              *)
(* (src/changes.go, src/couch.go): Database.Changes, the loop that builds  *)
(* the _changes request for the current cursor, issues it through the      *)
(* descriptor's dial hook, hands the response body to the caller's handler *)
(* and either resumes from the cursor the handler returned or stops.       *)
(*                                                                         *)
(* Strings that the program formats, parses or compares are sequences of   *)
(* one-character strings, so that formatting is computed and not assumed.  *)
(* Map keys and program positions are plain TLA+ strings.                  *)
(***************************************************************************)
EXTENDS Integers, Sequences, FiniteSets, TLC

\* ------------------------------------------------------------------ bounds

\* The number of client.Get calls one run of the model follows.
MaxAttempts == 3

\* ------------------------------------------------------------------ values

\* interface{} values: the dynamic type and the value under it.
Nil == [t |-> "nil", i |-> 0, s |-> <<>>]
IntV(n) == [t |-> "int", i |-> n, s |-> <<>>]
StrV(x) == [t |-> "string", i |-> 0, s |-> x]
\* A float64 of integral value, as encoding/json decodes a JSON number
\* into an interface{}
FloatV(n) == [t |-> "float64", i |-> n, s |-> <<>>]
Int64V(n) == [t |-> "int64", i |-> n, s |-> <<>>]
BoolV(b) == [t |-> "bool", i |-> IF b THEN 1 ELSE 0, s |-> <<>>]
\* A float64 given in tenths: FracV(31) is 3.1 and FracV(-27) is -2.7
FracV(m) == [t |-> "float64", i |-> m, s |-> <<"/", "1", "0">>]

Digit(d) == <<"0", "1", "2", "3", "4", "5", "6", "7", "8", "9">>[d + 1]

RECURSIVE FormatNat(_)
FormatNat(n) == IF n < 10 THEN <<Digit(n)>>
                ELSE FormatNat(n \div 10) \o <<Digit(n % 10)>>

\* fmt.Sprintf("%d", n)
FormatInt(n) == IF n < 0 THEN <<"-">> \o FormatNat(-n) ELSE FormatNat(n)

RECURSIVE StripZeros(_)
StripZeros(d) == IF Len(d) > 1 /\ d[Len(d)] = "0"
                 THEN StripZeros(SubSeq(d, 1, Len(d) - 1))
                 ELSE d

\* strconv's %e with the shortest digits: d[.ddd]e+XX
FormatE(n) ==
    LET d == StripZeros(FormatNat(n))
        e == Len(FormatNat(n)) - 1
    IN <<d[1]>> \o (IF Len(d) > 1 THEN <<".">> \o Tail(d) ELSE <<>>)
         \o <<"e", "+">> \o (IF e < 10 THEN <<"0">> ELSE <<>>) \o FormatNat(e)

\* fmt's %v of a float64 of integral value n >= 0: strconv's 'g' with the
\* shortest digits, which turns to %e from the exponent 6 on
FormatFloatNat(n) == IF Len(FormatNat(n)) - 1 < 6 THEN FormatNat(n) ELSE FormatE(n)

FormatFloat(n) == IF n < 0 THEN <<"-">> \o FormatFloatNat(-n) ELSE FormatFloatNat(n)

\* fmt.Sprintf("%v", v) for the dynamic types the model draws
Sprintv(v) ==
    CASE v.t \in {"int", "int64"} -> FormatInt(v.i)
      [] v.t = "bool" -> IF v.i = 1 THEN <<"t", "r", "u", "e">>
                         ELSE <<"f", "a", "l", "s", "e">>
      [] v.t = "string" -> v.s
      [] v.t = "float64" -> FormatFloat(v.i)
      [] OTHER -> <<"<", "n", "i", "l", ">">>

\* ------------------------------------------------------------------ int64

\* An int64 of the whole range: its eight bytes, the least significant
\* first, in two's complement.
Zero64 == <<0, 0, 0, 0, 0, 0, 0, 0>>

\* (x * k + c) modulo 256^Len(x), for a small k and c: Go's wrapping
\* multiplication by a constant
RECURSIVE MulSmall(_, _, _)
MulSmall(x, k, c) ==
    IF x = <<>> THEN <<>>
    ELSE LET v == x[1] * k + c
         IN <<v % 256>> \o MulSmall(Tail(x), k, v \div 256)

Complement(x) == [n \in 1..Len(x) |-> 255 - x[n]]

\* int64(n) of a small integer n
ToInt64(n) == IF n >= 0 THEN MulSmall(Zero64, 1, n)
              ELSE Complement(MulSmall(Zero64, 1, -n - 1))

IsNeg64(x) == x[Len(x)] >= 128

\* x > 0
Pos64(x) == ~IsNeg64(x) /\ \E n \in 1..Len(x) : x[n] # 0

\* time.Minute, in nanoseconds
timeMinute == MulSmall(MulSmall(ToInt64(60000), 1000, 0), 1000, 0)

\* The read timeout Changes computes from the heartbeat, in nanoseconds:
\* time.Millisecond * time.Duration(heartbeatTime*2), or time.Minute
timeoutFor(h) ==
    IF Pos64(h)
    THEN MulSmall(MulSmall(MulSmall(h, 2, 0), 1000, 0), 1000, 0)
    ELSE timeMinute

\* ------------------------------------------------------------------ inputs

\* time.Second, in nanoseconds
defaultChangeDelay == 1000000000

\* Database descriptors the caller may hold: one as the tests build it, one
\* as Connect/NewDatabase build it, one whose port makes the URL unparsable.
Descriptors ==
    { [Host |-> <<"h">>, Port |-> <<>>, Name |-> <<>>,
       changesFailDelay |-> 5],
      [Host |-> <<"h">>, Port |-> <<"8", "0">>, Name |-> <<"d">>,
       changesFailDelay |-> defaultChangeDelay],
      [Host |-> <<"h">>, Port |-> <<"8", "x">>, Name |-> <<"d">>,
       changesFailDelay |-> 5] }

\* Option maps the caller may pass: a function from the keys present to
\* their values.
NoOptions == [k \in {} |-> Nil]
OptionMaps ==
    { NoOptions,
      [k \in {"since", "start_key", "heartbeat"} |->
          CASE k = "since" -> IntV(858245)
            [] k = "start_key" -> StrV(<<"x">>)
            [] OTHER -> IntV(3999)],
      [k \in {"since", "heartbeat"} |->
          IF k = "since" THEN StrV(<<"5", "-", "g">>) ELSE IntV(-3999)],
      [k \in {"since", "feed"} |->
          IF k = "since" THEN Nil ELSE StrV(<<"c">>)],
      [k \in {"heartbeat"} |-> StrV(<<"1", "3">>)],
      [k \in {"heartbeat", "filter"} |-> Nil] }

\* What a handler may return: the terminal cursor (nil) or a sequence.
Cursors == {Nil, IntV(-1), IntV(0), IntV(12), StrV(<<>>), StrV(<<"7", "-", "a">>)}

\* Status codes a server may answer with.
Statuses == {200, 404}

VARIABLES
    pc,             \* the position of the Changes call
    p,              \* the Database descriptor (the receiver, by value)
    options,        \* the caller's options map
    since,          \* the current cursor
    heartbeatTime,  \* the heartbeat in milliseconds
    timeout,        \* the read timeout, an int64 of nanoseconds
    params,         \* url.Values of the request being made
    conn,           \* the socket captured from the dial hook, 0 for nil
    open,           \* sockets dialled and not closed
    bodies,         \* response bodies not closed
    tc,             \* the timeoutClient handed to the handler
    retval,         \* what Changes returned
    reqs,           \* history: the requests given to client.Get
    outcomes,       \* history: how each client.Get ended
    calls,          \* history: the handler's invocations
    returned,       \* history: the cursors the handler returned
    sleeps,         \* history: the backoff sleeps, by duration
    fin,            \* the argument of a function applied on its own
    fout,           \* its result
    now,            \* the clock of a timeoutClient on its own
    sock,           \* its underlying socket
    body,           \* its response body
    rd,             \* its Read call in progress
    rlog,           \* history: what its Read calls returned
    blog            \* history: what the body's Read calls returned

\* The state of a function or a timeoutClient exercised on its own, which
\* a Changes call leaves alone
side == <<fin, fout, now, sock, body, rd, rlog, blog>>

vars == <<pc, p, options, since, heartbeatTime, timeout, params, conn, open,
          bodies, tc, retval, reqs, outcomes, calls, returned, sleeps, side>>

prog == <<p, options>>
hist == <<reqs, outcomes, calls, returned, sleeps>>

\* The state of a Changes call, which a function or a timeoutClient
\* exercised on its own leaves alone
loop == <<since, heartbeatTime, timeout, params, conn, open, bodies, retval,
          hist>>

NoInput == [f |-> "none"]
NoOutput == [f |-> "none"]
NoSock == [deadline |-> -1, sets |-> 0, closed |-> FALSE, silent |-> FALSE]
NoBody == [reads |-> 0, closes |-> 0, closed |-> FALSE]
NoRead == [at |-> "idle", buf |-> 0, start |-> 0, took |-> 0, sets |-> 0,
           pre |-> 0, n |-> 0, err |-> "nil"]

NoTC == [body |-> 0, underlying |-> 0, readTimeout |-> Zero64]

\* ------------------------------------------------------------------ helpers

IsDigit(c) == c \in {"0", "1", "2", "3", "4", "5", "6", "7", "8", "9"}

DigitVal(c) == CHOOSE d \in 0..9 : Digit(d) = c

RECURSIVE ParseNat(_)
ParseNat(s) == IF s = <<>> THEN 0
               ELSE 10 * ParseNat(SubSeq(s, 1, Len(s) - 1)) + DigitVal(s[Len(s)])

\* The digits of a string given to strconv.ParseInt(s, 10, 64), after its
\* optional sign
Unsigned(s) == IF s # <<>> /\ s[1] \in {"+", "-"} THEN Tail(s) ELSE s

\* strconv.ParseInt(s, 10, 64) returns no error (strings short of the
\* int64 range)
ParseIntOK(s) ==
    /\ Unsigned(s) # <<>>
    /\ \A n \in 1..Len(Unsigned(s)) : IsDigit(Unsigned(s)[n])

\* The value strconv.ParseInt(s, 10, 64) returns with a nil error
ParseInt(s) == IF s[1] = "-" THEN -ParseNat(Unsigned(s)) ELSE ParseNat(Unsigned(s))

\* i64defopt taking a string that does not parse for zero
i64defoptZero(opts, k, def) ==
    IF k \in DOMAIN opts
    THEN CASE opts[k].t \in {"int", "int64"} -> opts[k].i
           [] opts[k].t = "float64" -> opts[k].i
           [] opts[k].t = "string" ->
                IF ParseIntOK(opts[k].s) THEN ParseInt(opts[k].s) ELSE 0
           [] OTHER -> def
    ELSE def

\* int64(f) of a float64 within the int64 range: the fraction is dropped
TruncFloat(v) ==
    IF v.s = <<>> THEN v.i
    ELSE IF v.i >= 0 THEN v.i \div 10 ELSE -((-v.i) \div 10)

\* i64defopt converting a float64 by rounding down
i64defoptFloors(opts, k, def) ==
    IF k \in DOMAIN opts
    THEN CASE opts[k].t \in {"int", "int64"} -> opts[k].i
           [] opts[k].t = "float64" ->
                IF opts[k].s = <<>> THEN opts[k].i ELSE opts[k].i \div 10
           [] opts[k].t = "string" ->
                IF ParseIntOK(opts[k].s) THEN ParseInt(opts[k].s) ELSE def
           [] OTHER -> def
    ELSE def

\* i64defopt(opts, k, def) for the dynamic types the model draws; a nil
\* value, like any other type, leaves the default
i64defopt(opts, k, def) ==
    IF k \in DOMAIN opts
    THEN CASE opts[k].t \in {"int", "int64"} -> opts[k].i
           [] opts[k].t = "float64" -> TruncFloat(opts[k])
           [] opts[k].t = "string" ->
                IF ParseIntOK(opts[k].s) THEN ParseInt(opts[k].s) ELSE def
           [] OTHER -> def
    ELSE def

\* Database.BaseURL, without credentials
BaseURL(d) == <<"h", "t", "t", "p", ":", "/", "/">> \o d.Host \o <<":">> \o d.Port

\* Database.DBURL
DBURL(d) == BaseURL(d) \o <<"/">> \o d.Name

\* Whether http.NewRequest, inside client.Get, can parse the URL: the query
\* is escaped by params.Encode, so only the descriptor's port can break it.
URLParses(d) == \A n \in 1..Len(d.Port) : IsDigit(d.Port[n])

\* BuildParams without the override of since by the cursor
BuildParamsNoCursor(opts, cur, hb) ==
    LET keys0 == {k \in DOMAIN opts : opts[k] # Nil}
        keys2 == IF hb > 0 THEN keys0 \cup {"heartbeat"}
                 ELSE keys0 \ {"heartbeat"}
    IN [k \in keys2 |->
          IF k = "heartbeat" THEN FormatInt(hb) ELSE Sprintv(opts[k])]

\* BuildParams without params.Del("heartbeat")
BuildParamsKeepsHeartbeat(opts, cur, hb) ==
    LET keys0 == {k \in DOMAIN opts : opts[k] # Nil}
        keys1 == IF cur # Nil THEN keys0 \cup {"since"} ELSE keys0
        keys2 == IF hb > 0 THEN keys1 \cup {"heartbeat"} ELSE keys1
    IN [k \in keys2 |->
          IF k = "heartbeat" /\ hb > 0 THEN FormatInt(hb)
          ELSE IF k = "since" /\ cur # Nil THEN Sprintv(cur)
          ELSE Sprintv(opts[k])]

\* BuildParams without the skip of nil values
BuildParamsKeepsNil(opts, cur, hb) ==
    LET keys1 == IF cur # Nil THEN DOMAIN opts \cup {"since"} ELSE DOMAIN opts
        keys2 == IF hb > 0 THEN keys1 \cup {"heartbeat"}
                 ELSE keys1 \ {"heartbeat"}
    IN [k \in keys2 |->
          IF k = "heartbeat" THEN FormatInt(hb)
          ELSE IF k = "since" /\ cur # Nil THEN Sprintv(cur)
          ELSE Sprintv(opts[k])]

\* BuildParams overriding since only from a cursor that is neither zero
\* nor empty
BuildParamsNonZero(opts, cur, hb) ==
    LET keys0 == {k \in DOMAIN opts : opts[k] # Nil}
        over == cur \notin {Nil, IntV(0), StrV(<<>>)}
        keys1 == IF over THEN keys0 \cup {"since"} ELSE keys0
        keys2 == IF hb > 0 THEN keys1 \cup {"heartbeat"}
                 ELSE keys1 \ {"heartbeat"}
    IN [k \in keys2 |->
          IF k = "heartbeat" THEN FormatInt(hb)
          ELSE IF k = "since" /\ over THEN Sprintv(cur)
          ELSE Sprintv(opts[k])]

\* The loop's url.Values: the options that are not nil, since overridden by
\* the cursor, heartbeat set or deleted.
BuildParams(opts, cur, hb) ==
    LET keys0 == {k \in DOMAIN opts : opts[k] # Nil}
        keys1 == IF cur # Nil THEN keys0 \cup {"since"} ELSE keys0
        keys2 == IF hb > 0 THEN keys1 \cup {"heartbeat"}
                 ELSE keys1 \ {"heartbeat"}
    IN [k \in keys2 |->
          IF k = "heartbeat" THEN FormatInt(hb)
          ELSE IF k = "since" /\ cur # Nil THEN Sprintv(cur)
          ELSE Sprintv(opts[k])]

\* ------------------------------------------------------------------ state

Init ==
    /\ pc = "entry"
    /\ p \in Descriptors
    /\ options \in OptionMaps
    /\ since = Nil
    /\ heartbeatTime = 0
    /\ timeout = Zero64
    /\ params = NoOptions
    /\ conn = 0
    /\ open = {}
    /\ bodies = {}
    /\ tc = NoTC
    /\ retval = "none"
    /\ reqs = <<>>
    /\ outcomes = <<>>
    /\ calls = <<>>
    /\ returned = <<>>
    /\ sleeps = <<>>
    /\ fin = NoInput
    /\ fout = NoOutput
    /\ now = 0
    /\ sock = NoSock
    /\ body = NoBody
    /\ rd = NoRead
    /\ rlog = <<>>
    /\ blog = <<>>

\* Changes, before the loop
ChangesEntry ==
    /\ pc = "entry"
    /\ since' = IF "since" \in DOMAIN options THEN options["since"] ELSE Nil
    /\ heartbeatTime' = i64defopt(options, "heartbeat", 5000)
    /\ timeout' = timeoutFor(ToInt64(heartbeatTime'))
    /\ pc' = "loop"
    /\ UNCHANGED <<prog, side, params, conn, open, bodies, tc, retval, hist>>

\* BuildRequest reading the heartbeat from the options again
BuildRequestRereads ==
    /\ pc = "loop"
    /\ Len(reqs) < MaxAttempts
    /\ params' = BuildParams(options, since, i64defopt(options, "heartbeat", 5000))
    /\ conn' = 0
    /\ reqs' = Append(reqs, [url |-> DBURL(p) \o <<"/", "_", "c", "h", "a", "n", "g", "e", "s", "?">>,
                             params |-> params',
                             ncur |-> Len(returned),
                             nsleep |-> Len(sleeps)])
    /\ pc' = "get"
    /\ UNCHANGED <<prog, side, since, heartbeatTime, timeout, open, bodies, tc,
                   retval, outcomes, calls, returned, sleeps>>

\* BuildRequest taking the since entry out of the options once a cursor
\* replaces it
BuildRequestDropsSince ==
    /\ pc = "loop"
    /\ Len(reqs) < MaxAttempts
    /\ params' = BuildParams(options, since, heartbeatTime)
    /\ conn' = 0
    /\ reqs' = Append(reqs, [url |-> DBURL(p) \o <<"/", "_", "c", "h", "a", "n", "g", "e", "s", "?">>,
                             params |-> params',
                             ncur |-> Len(returned),
                             nsleep |-> Len(sleeps)])
    /\ pc' = "get"
    /\ options' = IF Len(returned) > 0
                  THEN [k \in DOMAIN options \ {"since"} |-> options[k]]
                  ELSE options
    /\ UNCHANGED <<p, side, since, heartbeatTime, timeout, open, bodies, tc,
                   retval, outcomes, calls, returned, sleeps>>

\* The top of the loop: the query parameters, the URL, a nil conn and the
\* call of client.Get.
BuildRequest ==
    /\ pc = "loop"
    /\ Len(reqs) < MaxAttempts
    /\ params' = BuildParams(options, since, heartbeatTime)
    /\ conn' = 0
    /\ reqs' = Append(reqs, [url |-> DBURL(p) \o <<"/", "_", "c", "h", "a", "n", "g", "e", "s", "?">>,
                             params |-> params',
                             ncur |-> Len(returned),
                             nsleep |-> Len(sleeps)])
    /\ pc' = "get"
    /\ UNCHANGED <<prog, side, since, heartbeatTime, timeout, open, bodies, tc,
                   retval, outcomes, calls, returned, sleeps>>

Failed(kind) ==
    /\ outcomes' = Append(outcomes, [kind |-> kind, status |-> 0])
    /\ pc' = "sleep"

\* GetBadURL returning the error to the caller instead of retrying
GetBadURLReturns ==
    /\ pc = "get"
    /\ ~URLParses(p)
    /\ outcomes' = Append(outcomes, [kind |-> "badurl", status |-> 0])
    /\ pc' = "done"
    /\ retval' = "err"
    /\ UNCHANGED <<prog, side, since, heartbeatTime, timeout, params, conn, open,
                   bodies, tc, reqs, calls, returned, sleeps>>

\* client.Get cannot build the request: err is not nil.
GetBadURL ==
    /\ pc = "get"
    /\ ~URLParses(p)
    /\ Failed("badurl")
    /\ UNCHANGED <<prog, side, since, heartbeatTime, timeout, params, conn, open,
                   bodies, tc, retval, reqs, calls, returned, sleeps>>

\* DialFail ending the feed instead of retrying
DialFailReturns ==
    /\ pc = "get"
    /\ URLParses(p)
    /\ outcomes' = Append(outcomes, [kind |-> "dialfail", status |-> 0])
    /\ pc' = "done"
    /\ retval' = "nil"
    /\ UNCHANGED <<prog, side, since, heartbeatTime, timeout, params, conn, open,
                   bodies, tc, reqs, calls, returned, sleeps>>

\* The transport calls the dial hook, which fails: err is not nil.
DialFail ==
    /\ pc = "get"
    /\ URLParses(p)
    /\ Failed("dialfail")
    /\ UNCHANGED <<prog, side, since, heartbeatTime, timeout, params, conn, open,
                   bodies, tc, retval, reqs, calls, returned, sleeps>>

\* DialOK with the closure's conn shadowed: the loop's conn stays nil
DialOKShadowed ==
    /\ pc = "get"
    /\ URLParses(p)
    /\ open' = open \cup {Len(reqs)}
    /\ pc' = "exchange"
    /\ UNCHANGED <<prog, side, since, heartbeatTime, timeout, params, conn,
                   bodies, tc, retval, hist>>

\* The transport calls the dial hook, which returns a new socket; the
\* closure stores it in conn.
DialOK ==
    /\ pc = "get"
    /\ URLParses(p)
    /\ conn' = Len(reqs)
    /\ open' = open \cup {Len(reqs)}
    /\ pc' = "exchange"
    /\ UNCHANGED <<prog, side, since, heartbeatTime, timeout, params, bodies, tc,
                   retval, hist>>

\* The request fails on the dialled socket (write error, end of stream or
\* a malformed header): the transport closes the socket it was using and
\* client.Get returns the error.
RequestFail ==
    /\ pc = "exchange"
    /\ open' = open \ {conn}
    /\ Failed("reqfail")
    /\ UNCHANGED <<prog, side, since, heartbeatTime, timeout, params, conn, bodies,
                   tc, retval, reqs, calls, returned, sleeps>>

\* client.Get returns a response, of any status, and a nil error; the loop
\* wraps the body and invokes the handler.
Response ==
    /\ pc = "exchange"
    /\ \E st \in Statuses :
          outcomes' = Append(outcomes, [kind |-> "resp", status |-> st])
    /\ bodies' = bodies \cup {Len(reqs)}
    /\ tc' = [body |-> Len(reqs), underlying |-> conn, readTimeout |-> timeout]
    /\ calls' = Append(calls, [attempt |-> Len(reqs), sleeps |-> Len(sleeps),
                               open |-> open, bodies |-> bodies',
                               underlying |-> tc'.underlying])
    /\ pc' = "handler"
    /\ UNCHANGED <<prog, side, since, heartbeatTime, timeout, params, conn, open,
                   retval, reqs, returned, sleeps>>

\* The handler returns a cursor, which is assigned to since.
HandlerReturn ==
    /\ pc = "handler"
    /\ \E r \in Cursors :
          /\ since' = r
          /\ returned' = Append(returned, r)
    /\ pc' = "closeConn"
    /\ UNCHANGED <<prog, side, heartbeatTime, timeout, params, conn, open, bodies,
                   tc, retval, reqs, outcomes, calls, sleeps>>

\* CloseConn with the deferred conn.Close() left out
CloseConnSkipped ==
    /\ pc = "closeConn"
    /\ pc' = "closeBody"
    /\ UNCHANGED <<prog, side, since, heartbeatTime, timeout, params, conn, open,
                   bodies, tc, retval, hist>>

\* defer conn.Close(), the first of the two deferred calls to run
CloseConn ==
    /\ pc = "closeConn"
    /\ open' = open \ {conn}
    /\ pc' = "closeBody"
    /\ UNCHANGED <<prog, side, since, heartbeatTime, timeout, params, conn, bodies,
                   tc, retval, hist>>

\* CloseBody with the deferred resp.Body.Close() left out
CloseBodySkipped ==
    /\ pc = "closeBody"
    /\ pc' = "examine"
    /\ UNCHANGED <<prog, side, since, heartbeatTime, timeout, params, conn, open,
                   bodies, tc, retval, hist>>

\* defer resp.Body.Close()
CloseBody ==
    /\ pc = "closeBody"
    /\ bodies' = bodies \ {tc.body}
    /\ pc' = "examine"
    /\ UNCHANGED <<prog, side, since, heartbeatTime, timeout, params, conn, open,
                   tc, retval, hist>>

\* Examine backing off before every new attempt
ExamineSleeps ==
    /\ pc = "examine"
    /\ IF since = Nil
       THEN pc' = "done" /\ retval' = "nil"
       ELSE pc' = "sleep" /\ retval' = retval
    /\ UNCHANGED <<prog, side, since, heartbeatTime, timeout, params, conn, open,
                   bodies, tc, hist>>

\* Examine with the terminal cursor taken to be -1 instead of nil
ExamineMinusOne ==
    /\ pc = "examine"
    /\ IF since = IntV(-1)
       THEN pc' = "done" /\ retval' = "nil"
       ELSE pc' = "loop" /\ retval' = retval
    /\ UNCHANGED <<prog, side, since, heartbeatTime, timeout, params, conn, open,
                   bodies, tc, hist>>

\* if since == nil { break } ... return nil
Examine ==
    /\ pc = "examine"
    /\ IF since = Nil
       THEN pc' = "done" /\ retval' = "nil"
       ELSE pc' = "loop" /\ retval' = retval
    /\ UNCHANGED <<prog, side, since, heartbeatTime, timeout, params, conn, open,
                   bodies, tc, hist>>

\* Sleep with a fixed delay of one second instead of the descriptor's
SleepOneSecond ==
    /\ pc = "sleep"
    /\ sleeps' = Append(sleeps, defaultChangeDelay)
    /\ pc' = "loop"
    /\ UNCHANGED <<prog, side, since, heartbeatTime, timeout, params, conn, open,
                   bodies, tc, retval, reqs, outcomes, calls, returned>>

\* Sleep with a retry ceiling: the loop gives up after the second sleep
SleepGivesUp ==
    /\ pc = "sleep"
    /\ sleeps' = Append(sleeps, p.changesFailDelay)
    /\ IF Len(sleeps') >= 2
       THEN pc' = "done" /\ retval' = "nil"
       ELSE pc' = "loop" /\ retval' = retval
    /\ UNCHANGED <<prog, side, since, heartbeatTime, timeout, params, conn, open,
                   bodies, tc, reqs, outcomes, calls, returned>>

\* log.Printf and time.Sleep(p.changesFailDelay)
Sleep ==
    /\ pc = "sleep"
    /\ sleeps' = Append(sleeps, p.changesFailDelay)
    /\ pc' = "loop"
    /\ UNCHANGED <<prog, side, since, heartbeatTime, timeout, params, conn, open,
                   bodies, tc, retval, reqs, outcomes, calls, returned>>

Next ==
    \/ ChangesEntry
    \/ BuildRequest
    \/ GetBadURL
    \/ DialFail
    \/ DialOK
    \/ RequestFail
    \/ Response
    \/ HandlerReturn
    \/ CloseConn
    \/ CloseBody
    \/ Examine
    \/ Sleep

Spec == Init /\ [][Next]_vars

\* A Changes call on a descriptor of ds with an options map of ms
InitAt(ds, ms) ==
    /\ pc = "entry"
    /\ p \in ds
    /\ options \in ms
    /\ since = Nil
    /\ heartbeatTime = 0
    /\ timeout = Zero64
    /\ params = NoOptions
    /\ conn = 0
    /\ open = {}
    /\ bodies = {}
    /\ tc = NoTC
    /\ retval = "none"
    /\ reqs = <<>>
    /\ outcomes = <<>>
    /\ calls = <<>>
    /\ returned = <<>>
    /\ sleeps = <<>>
    /\ fin = NoInput
    /\ fout = NoOutput
    /\ now = 0
    /\ sock = NoSock
    /\ body = NoBody
    /\ rd = NoRead
    /\ rlog = <<>>
    /\ blog = <<>>

\* The descriptor of the tests and the one whose URL does not parse
FewDescriptors == {d \in Descriptors : d.changesFailDelay = 5}

\* Options of a caller whose handler edits them: those of
\* TestChangesWithOptions and of TestChangesWithNegativeHB, and none
EditedOptionMaps ==
    {m \in OptionMaps : m = NoOptions \/ ("heartbeat" \in DOMAIN m /\ m["heartbeat"].t = "int")}

\* The entries a handler may write into the options map it shares with
\* its caller
HandlerEdits ==
    { [k |-> "heartbeat", v |-> IntV(7)],
      [k |-> "since", v |-> IntV(3)],
      [k |-> "feed", v |-> StrV(<<"x">>)] }

\* The handler, which runs in the caller's code and may hold the map the
\* caller passed as options, writes an entry into it before it returns.
HandlerMutates ==
    /\ pc = "handler"
    /\ \E e \in HandlerEdits :
          /\ options' = [k \in DOMAIN options \cup {e.k} |->
                            IF k = e.k THEN e.v ELSE options[k]]
          /\ options' # options
    /\ UNCHANGED <<pc, p, side, since, heartbeatTime, timeout, params, conn,
                   open, bodies, tc, retval, hist>>

InitH == InitAt(FewDescriptors, EditedOptionMaps)

NextH ==
    \/ Next
    \/ HandlerMutates

\* Changes with a handler that edits the options
SpecH == InitH /\ [][NextH]_vars

\* Options that give no heartbeat: none, a nil, a string that is no
\* number, a value of a type i64defopt does not know
DefaultedOptionMaps ==
    { NoOptions,
      [k \in {"heartbeat", "filter"} |-> Nil],
      [k \in {"heartbeat"} |-> StrV(<<"5", "s">>)],
      [k \in {"heartbeat", "feed"} |->
          IF k = "feed" THEN StrV(<<"c">>) ELSE BoolV(TRUE)] }

InitDef == InitAt(FewDescriptors, DefaultedOptionMaps)

\* Changes called with such options
SpecDef == InitDef /\ [][Next]_vars

InitLive == InitAt(FewDescriptors, {m \in OptionMaps : DOMAIN m \subseteq {"heartbeat"}})

\* A handler that returns the terminal cursor when it is invoked
HandlerEnds ==
    /\ HandlerReturn
    /\ since' = Nil

NextLive ==
    \/ ChangesEntry
    \/ BuildRequest
    \/ GetBadURL
    \/ DialFail
    \/ DialOK
    \/ RequestFail
    \/ Response
    \/ HandlerEnds
    \/ CloseConn
    \/ CloseBody
    \/ Examine
    \/ Sleep

\* Changes with such a handler and with every step that can be taken
\* eventually taken: the dial, the exchange, the handler and the sleep all
\* come to an end.
SpecLive == InitLive /\ [][NextLive]_vars /\ WF_vars(NextLive)

\* ------------------------------------------------- functions on their own

\* How far above each base heartbeat the heartbeats drawn go.
MaxOffset == 4

\* The int64 a string of decimal digits denotes
RECURSIVE Dec64(_)
Dec64(s) == IF s = <<>> THEN Zero64
            ELSE MulSmall(Dec64(SubSeq(s, 1, Len(s) - 1)), 10, DigitVal(s[Len(s)]))

\* Heartbeats i64defopt may return: around zero, the tests' values, the
\* default, and the values around which heartbeatTime*2 and its scaling to
\* nanoseconds leave the int64 range.
HeartbeatBases ==
    { ToInt64(-3999), ToInt64(-3), Zero64, ToInt64(11), ToInt64(3997),
      ToInt64(4998), ToInt64(29998), ToInt64(2147483640),
      Dec64(<<"4", "6", "1", "1", "6", "8", "6", "0", "1", "8", "4", "2", "5">>),
      Dec64(<<"9", "2", "2", "3", "3", "7", "2", "0", "3", "6", "8", "5", "3">>),
      Dec64(<<"4", "6", "1", "1", "6", "8", "6", "0", "1", "8", "4", "2", "7",
              "3", "8", "7", "9", "0", "1">>),
      Dec64(<<"9", "2", "2", "3", "3", "7", "2", "0", "3", "6", "8", "5", "4",
              "7", "7", "5", "8", "0", "3">>) }

Heartbeats == {MulSmall(b, 1, d) : b \in HeartbeatBases, d \in 0..MaxOffset}

\* Sequences a server may send as seq or last_seq: JSON numbers, by their
\* digits, and JSON strings, by their content.
ServerSeqs ==
    { [kind |-> "number", text |-> <<"0">>],
      [kind |-> "number", text |-> <<"1", "2">>],
      [kind |-> "number", text |-> <<"8", "5", "8", "2", "4", "5">>],
      [kind |-> "number", text |-> <<"9", "9", "9", "9", "9", "9">>],
      [kind |-> "number", text |-> <<"1", "0", "0", "0", "0", "0", "0">>],
      [kind |-> "number", text |-> <<"1", "2", "3", "4", "5", "6", "7">>],
      [kind |-> "number", text |-> <<"2", "0", "0", "0", "0", "0", "0", "1", "0">>],
      [kind |-> "string", text |-> <<>>],
      [kind |-> "string", text |-> <<"1", "2">>],
      [kind |-> "string", text |-> <<"5", "-", "g", "1", "A">>] }

\* Change.Sequence and Changes.LastSequence as encoding/json decodes them
\* into an interface{}: a number becomes a float64, a string a string
DecodeSeq(tok) ==
    IF tok.kind = "number" THEN FloatV(ParseNat(tok.text)) ELSE StrV(tok.text)

\* The options of TestI64Opt, with a boolean for its function value, and
\* further floats, strings and a nil
I64Options ==
    [k \in {"a", "b", "c", "d", "e", "f", "g", "h", "i", "j", "l", "m", "n"} |->
        CASE k = "a" -> IntV(1)
          [] k = "b" -> Int64V(2)
          [] k = "c" -> FracV(31)
          [] k = "d" -> StrV(<<"4">>)
          [] k = "e" -> StrV(<<"f", "i", "v", "e">>)
          [] k = "f" -> BoolV(TRUE)
          [] k = "g" -> FracV(-27)
          [] k = "h" -> FloatV(-3)
          [] k = "i" -> StrV(<<"-", "1", "2">>)
          [] k = "j" -> StrV(<<"+", "7">>)
          [] k = "l" -> StrV(<<>>)
          [] k = "m" -> StrV(<<"4", ".", "0">>)
          [] k = "n" -> Nil]

I64Inputs ==
    {[f |-> "i64", opts |-> I64Options, k |-> k, def |-> d] :
        k \in DOMAIN I64Options \cup {"z"}, d \in {99, 5000}}

\* How many entries an envelope holds at most.
MaxEntries == 2

\* Sequences a caller may put in a Change or a Changes
EnvelopeSeqs == {IntV(12), FloatV(1234567), StrV(<<"5", "-", "g">>)}

\* Change values
Entries ==
    [Sequence : EnvelopeSeqs, Id : {<<"a">>, <<"b", "c">>},
     ChangedRevs : {<<>>, <<[Revision |-> <<"1", "-", "x">>]>>},
     Deleted : BOOLEAN]

\* Changes values
Envelopes ==
    [Results : UNION {[1..n -> Entries] : n \in 0..MaxEntries},
     LastSequence : EnvelopeSeqs]

\* json.Marshal of an interface{} holding a number or a string: a JSON
\* number, by its digits, or a JSON string, by its content
EncodeSeq(v) ==
    IF v.t = "string" THEN [kind |-> "string", text |-> v.s]
    ELSE [kind |-> "number", text |-> FormatInt(v.i)]

\* json.Marshal of a Change
EncodeChange(c) ==
    [seq |-> EncodeSeq(c.Sequence), id |-> c.Id,
     changes |-> [n \in 1..Len(c.ChangedRevs) |-> [rev |-> c.ChangedRevs[n].Revision]],
     deleted |-> c.Deleted]

\* json.Marshal of a Changes
EncodeChanges(e) ==
    [results |-> [n \in 1..Len(e.Results) |-> EncodeChange(e.Results[n])],
     last_seq |-> EncodeSeq(e.LastSequence)]

\* ReadAllChanges: the document decoded into a Changes
ReadAllChanges(doc) ==
    [Results |->
        [n \in 1..Len(doc.results) |->
            [Sequence |-> DecodeSeq(doc.results[n].seq),
             Id |-> doc.results[n].id,
             ChangedRevs |-> [m \in 1..Len(doc.results[n].changes) |->
                                 [Revision |-> doc.results[n].changes[m].rev]],
             Deleted |-> doc.results[n].deleted]],
     LastSequence |-> DecodeSeq(doc.last_seq)]

PureInputs ==
    {[f |-> "timeout", h |-> h] : h \in Heartbeats}
        \cup {[f |-> "resubmit", tok |-> tok] : tok \in ServerSeqs}
        \cup I64Inputs
        \cup {[f |-> "roundtrip", env |-> e] : e \in Envelopes}

InitPure ==
    /\ pc = "pure"
    /\ p \in {d \in Descriptors : d.changesFailDelay = defaultChangeDelay}
    /\ options = NoOptions
    /\ since = Nil
    /\ heartbeatTime = 0
    /\ timeout = Zero64
    /\ params = NoOptions
    /\ conn = 0
    /\ open = {}
    /\ bodies = {}
    /\ tc = NoTC
    /\ retval = "none"
    /\ reqs = <<>>
    /\ outcomes = <<>>
    /\ calls = <<>>
    /\ returned = <<>>
    /\ sleeps = <<>>
    /\ fin \in PureInputs
    /\ fout = NoOutput
    /\ now = 0
    /\ sock = NoSock
    /\ body = NoBody
    /\ rd = NoRead
    /\ rlog = <<>>
    /\ blog = <<>>

\* The read timeout of a Changes call whose heartbeat is fin.h
ApplyTimeout ==
    /\ pc = "pure"
    /\ fin.f = "timeout"
    /\ fout' = [f |-> "timeout", v |-> timeoutFor(fin.h)]
    /\ pc' = "applied"
    /\ UNCHANGED <<prog, tc, loop, fin, now, sock, body, rd, rlog, blog>>

\* A handler that decodes the sequence fin.tok and returns it: the query
\* parameters of the request that follows
ApplyResubmit ==
    /\ pc = "pure"
    /\ fin.f = "resubmit"
    /\ fout' = [f |-> "resubmit",
                v |-> BuildParams(options, DecodeSeq(fin.tok), 5000)]
    /\ pc' = "applied"
    /\ UNCHANGED <<prog, tc, loop, fin, now, sock, body, rd, rlog, blog>>

\* i64defopt(fin.opts, fin.k, fin.def)
ApplyI64 ==
    /\ pc = "pure"
    /\ fin.f = "i64"
    /\ fout' = [f |-> "i64", v |-> i64defopt(fin.opts, fin.k, fin.def)]
    /\ pc' = "applied"
    /\ UNCHANGED <<prog, tc, loop, fin, now, sock, body, rd, rlog, blog>>

\* The envelope fin.env encoded and read back by ReadAllChanges
ApplyRoundTrip ==
    /\ pc = "pure"
    /\ fin.f = "roundtrip"
    /\ fout' = [f |-> "roundtrip", v |-> ReadAllChanges(EncodeChanges(fin.env))]
    /\ pc' = "applied"
    /\ UNCHANGED <<prog, tc, loop, fin, now, sock, body, rd, rlog, blog>>

NextPure ==
    \/ ApplyTimeout
    \/ ApplyResubmit
    \/ ApplyI64
    \/ ApplyRoundTrip

SpecPure == InitPure /\ [][NextPure]_vars

\* ------------------------------------------- a timeoutClient on its own

\* How many Read calls, how many Close calls, how large a buffer and how
\* long a run of the clock are followed.
MaxReads == 2
MaxCloses == 1
MaxBuf == 1
MaxClock == 4

\* The nanoseconds of a short positive duration
Nanos(d) == d[1] + 256 * d[2]

\* The readTimeout of the timeoutClient: negative, zero and positive
ReadTimeouts == {ToInt64(-13), Zero64, ToInt64(2), ToInt64(3)}

\* A timeoutClient around a response body and the socket it is read from,
\* after the response header arrived; the server then sends data or is
\* silent.
InitTC ==
    /\ pc = "tc"
    /\ p \in {d \in Descriptors : d.changesFailDelay = defaultChangeDelay}
    /\ options = NoOptions
    /\ since = Nil
    /\ heartbeatTime = 0
    /\ timeout = Zero64
    /\ params = NoOptions
    /\ conn = 0
    /\ open = {}
    /\ bodies = {}
    /\ \E d \in ReadTimeouts :
          /\ tc = [body |-> 1, underlying |-> 1, readTimeout |-> d]
          /\ fin = [f |-> "tc", tc |-> tc]
    /\ retval = "none"
    /\ reqs = <<>>
    /\ outcomes = <<>>
    /\ calls = <<>>
    /\ returned = <<>>
    /\ sleeps = <<>>
    /\ fout = NoOutput
    /\ now = 0
    /\ \E quiet \in BOOLEAN : sock = [NoSock EXCEPT !.silent = quiet]
    /\ body = NoBody
    /\ rd = NoRead
    /\ rlog = <<>>
    /\ blog = <<>>

\* ReadEnter setting the deadline whatever readTimeout is
ReadEnterAlways ==
    /\ pc = "tc"
    /\ rd.at = "idle"
    /\ Len(rlog) < MaxReads
    /\ \E b \in 1..MaxBuf :
          rd' = [NoRead EXCEPT !.at = "delegate", !.buf = b, !.start = now,
                               !.sets = 1]
    /\ sock' = [sock EXCEPT !.sets = @ + 1,
                            !.deadline = now + Nanos(tc.readTimeout)]
    /\ UNCHANGED <<pc, prog, tc, loop, fin, fout, now, body, rlog, blog>>

\* ReadEnter never setting the deadline
ReadEnterNever ==
    /\ pc = "tc"
    /\ rd.at = "idle"
    /\ Len(rlog) < MaxReads
    /\ \E b \in 1..MaxBuf :
          rd' = [NoRead EXCEPT !.at = "delegate", !.buf = b, !.start = now]
    /\ UNCHANGED <<pc, prog, tc, loop, fin, fout, now, sock, body, rlog, blog>>

\* timeoutClient.Read is called with a buffer of b bytes: with a positive
\* readTimeout it sets the socket's read deadline to now + readTimeout.
ReadEnter ==
    /\ pc = "tc"
    /\ rd.at = "idle"
    /\ Len(rlog) < MaxReads
    /\ \E b \in 1..MaxBuf :
          rd' = [NoRead EXCEPT !.at = "delegate", !.buf = b, !.start = now,
                               !.sets = IF Pos64(tc.readTimeout) THEN 1 ELSE 0]
    /\ IF Pos64(tc.readTimeout)
       THEN sock' = [sock EXCEPT !.sets = @ + 1,
                                 !.deadline = now + Nanos(tc.readTimeout)]
       ELSE sock' = sock
    /\ UNCHANGED <<pc, prog, tc, loop, fin, fout, now, body, rlog, blog>>

\* Read calls tc.body.Read(p) with the caller's buffer.
Delegate ==
    /\ pc = "tc"
    /\ rd.at = "delegate"
    /\ body' = [body EXCEPT !.reads = @ + 1]
    /\ rd' = [rd EXCEPT !.at = "body", !.pre = rd.sets]
    /\ UNCHANGED <<pc, prog, tc, loop, fin, fout, now, sock, rlog, blog>>

\* The body's Read returned (n, err) to timeoutClient.Read.
BodyReturns(n, err) ==
    /\ blog' = Append(blog, [buf |-> rd.buf, n |-> n, err |-> err])
    /\ rd' = [rd EXCEPT !.at = "return", !.n = n, !.err = err,
                         !.took = now - rd.start]
    /\ UNCHANGED <<pc, prog, tc, loop, fin, fout, now, sock, body, rlog>>

\* The server sent data or ended the stream: the body's Read returns some
\* bytes, the end of the stream, or both.
BodyData ==
    /\ pc = "tc"
    /\ rd.at = "body"
    /\ ~body.closed
    /\ ~sock.silent
    /\ \E n \in 0..rd.buf, err \in {"nil", "EOF"} :
          /\ n = 0 => err = "EOF"
          /\ BodyReturns(n, err)

\* The body was closed: its Read fails at once.
BodyClosedRead ==
    /\ pc = "tc"
    /\ rd.at = "body"
    /\ body.closed
    /\ BodyReturns(0, "closed")

\* The socket's read deadline passed with the body's Read waiting on it:
\* the Read fails with the deadline error.
BodyTimeout ==
    /\ pc = "tc"
    /\ rd.at = "body"
    /\ ~body.closed
    /\ sock.deadline # -1
    /\ now >= sock.deadline
    /\ BodyReturns(0, "timeout")

\* ReadReturn turning the end of the stream into a nil error
ReadReturnHidesEOF ==
    /\ pc = "tc"
    /\ rd.at = "return"
    /\ rlog' = Append(rlog, [buf |-> rd.buf, n |-> rd.n,
                             err |-> IF rd.err = "EOF" THEN "nil" ELSE rd.err,
                             sets |-> rd.sets, pre |-> rd.pre,
                             took |-> rd.took])
    /\ rd' = NoRead
    /\ UNCHANGED <<pc, prog, tc, loop, fin, fout, now, sock, body, blog>>

\* timeoutClient.Read returns what the body's Read returned.
ReadReturn ==
    /\ pc = "tc"
    /\ rd.at = "return"
    /\ rlog' = Append(rlog, [buf |-> rd.buf, n |-> rd.n, err |-> rd.err,
                             sets |-> rd.sets, pre |-> rd.pre,
                             took |-> rd.took])
    /\ rd' = NoRead
    /\ UNCHANGED <<pc, prog, tc, loop, fin, fout, now, sock, body, blog>>

\* CloseCall closing the socket as well as the body
CloseCallBoth ==
    /\ pc = "tc"
    /\ rd.at = "idle"
    /\ body.closes < MaxCloses
    /\ body' = [body EXCEPT !.closes = @ + 1, !.closed = TRUE]
    /\ sock' = [sock EXCEPT !.closed = TRUE]
    /\ UNCHANGED <<pc, prog, tc, loop, fin, fout, now, rd, rlog, blog>>

\* timeoutClient.Close closes the body.
CloseCall ==
    /\ pc = "tc"
    /\ rd.at = "idle"
    /\ body.closes < MaxCloses
    /\ body' = [body EXCEPT !.closes = @ + 1, !.closed = TRUE]
    /\ UNCHANGED <<pc, prog, tc, loop, fin, fout, now, sock, rd, rlog, blog>>

\* Time passes between the calls and while the body's Read waits, the
\* other steps of a Read taking none; it does not pass a due deadline of
\* a socket that a body Read is waiting on: the socket fails the Read
\* when its deadline comes.
Tick ==
    /\ pc = "tc"
    /\ now < MaxClock
    /\ rd.at \in {"idle", "body"}
    /\ ~(rd.at = "body" /\ sock.deadline # -1 /\ now >= sock.deadline)
    /\ now' = now + 1
    /\ UNCHANGED <<pc, prog, tc, loop, fin, fout, sock, body, rd, rlog, blog>>

NextTC ==
    \/ ReadEnter
    \/ Delegate
    \/ BodyData
    \/ BodyClosedRead
    \/ BodyTimeout
    \/ ReadReturn
    \/ CloseCall
    \/ Tick

SpecTC == InitTC /\ [][NextTC]_vars

\* ------------------------------------------- the database and documents

\* url.QueryEscape for the ids drawn: a space becomes +, a slash %2F
RECURSIVE QueryEscape(_)
QueryEscape(x) ==
    IF x = <<>> THEN <<>>
    ELSE (CASE x[1] = " " -> <<"+">>
            [] x[1] = "/" -> <<"%", "2", "F">>
            [] OTHER -> <<x[1]>>) \o QueryEscape(Tail(x))

\* The _id or _rev of a document as a string: what m["_id"].(string) gives
\* in cleanJSON, the empty string for an absent or non-string value
AsString(v) == IF v.t = "string" THEN v.s ELSE <<>>

\* cleanJSON: the id and rev of the document, and the document without
\* them
cleanJSON(d) ==
    [id |-> AsString(d.id), rev |-> AsString(d.rev),
     jsonBuf |-> [d EXCEPT !.id = Nil, !.rev = Nil]]

\* The outcomes of interact: an error (transport, status outside 2xx or a
\* body that does not decode), or a decoded Response, Ok or not
Replies ==
    [kind : {"err", "notok", "ok"}, ID : {<<"s", "1">>}, Rev : {<<"2", "-", "y">>}]

\* What the server is sent: a request of interact or unmarshalURL
Request(method, u, doc) == [method |-> method, url |-> u, doc |-> doc]

\* The result of an operation: the requests it issued and what it returns
Result(rs, id, rev, err) == [reqs |-> rs, id |-> id, rev |-> rev, err |-> err]

\* Database.insert
insert(d, jsonBuf, r) ==
    LET rs == <<Request("POST", DBURL(d), jsonBuf)>> IN
    CASE r.kind = "err" -> Result(rs, <<>>, <<>>, "interact")
      [] r.kind = "notok" -> Result(rs, <<>>, <<>>, "errorReason")
      [] OTHER -> Result(rs, r.ID, r.Rev, "nil")

\* Database.insertWith
insertWith(d, jsonBuf, id, r) ==
    LET rs == <<Request("PUT", DBURL(d) \o <<"/">> \o QueryEscape(id), jsonBuf)>> IN
    CASE r.kind = "err" -> Result(rs, <<>>, <<>>, "interact")
      [] r.kind = "notok" -> Result(rs, <<>>, <<>>, "errorReason")
      [] OTHER -> Result(rs, r.ID, r.Rev, "nil")

\* Edit checking the rev before the id
EditRevFirst(d, doc, r) ==
    CASE doc.id.t \notin {"nil", "string"} \/ doc.rev.t \notin {"nil", "string"} ->
            Result(<<>>, <<>>, <<>>, "panic")
      [] AsString(doc.rev) = <<>> -> Result(<<>>, <<>>, <<>>, "errNoRev")
      [] AsString(doc.id) = <<>> -> Result(<<>>, <<>>, <<>>, "errNoID")
      [] OTHER ->
            LET rs == <<Request("PUT", DBURL(d) \o <<"/">> \o QueryEscape(doc.id.s), doc)>>
            IN IF r.kind = "err" THEN Result(rs, <<>>, <<>>, "interact")
               ELSE Result(rs, <<>>, IF r.kind = "ok" THEN r.Rev ELSE <<>>, "nil")

\* Database.Edit: the document is unmarshalled into an idAndRev, which
\* panics on an _id or _rev that is no string; the id is tested, then the
\* rev, then the document is PUT. Response.Ok is not looked at.
Edit(d, doc, r) ==
    CASE doc.id.t \notin {"nil", "string"} \/ doc.rev.t \notin {"nil", "string"} ->
            Result(<<>>, <<>>, <<>>, "panic")
      [] AsString(doc.id) = <<>> -> Result(<<>>, <<>>, <<>>, "errNoID")
      [] AsString(doc.rev) = <<>> -> Result(<<>>, <<>>, <<>>, "errNoRev")
      [] OTHER ->
            LET rs == <<Request("PUT", DBURL(d) \o <<"/">> \o QueryEscape(doc.id.s), doc)>>
            IN IF r.kind = "err" THEN Result(rs, <<>>, <<>>, "interact")
               ELSE Result(rs, <<>>, IF r.kind = "ok" THEN r.Rev ELSE <<>>, "nil")

\* Database.EditWith: the id and the rev are tested before anything else
\* and then written into the document
EditWith(d, doc, id, rev, r) ==
    CASE id = <<>> -> Result(<<>>, <<>>, <<>>, "errNoID")
      [] rev = <<>> -> Result(<<>>, <<>>, <<>>, "errNoRev")
      [] OTHER -> Edit(d, [doc EXCEPT !.id = StrV(id), !.rev = StrV(rev)], r)

\* Insert sending every document without a rev to the server for an id
InsertPostsWithoutRev(d, doc, r) ==
    LET c == cleanJSON(doc) IN
    IF c.id # <<>> /\ c.rev # <<>>
    THEN [Edit(d, doc, r) EXCEPT !.id = c.id]
    ELSE insert(d, c.jsonBuf, r)

\* Database.Insert
Insert(d, doc, r) ==
    LET c == cleanJSON(doc) IN
    IF c.id # <<>> /\ c.rev # <<>>
    THEN [Edit(d, doc, r) EXCEPT !.id = c.id]
    ELSE IF c.id # <<>>
    THEN insertWith(d, c.jsonBuf, c.id, r)
    ELSE insert(d, c.jsonBuf, r)

\* The _id and _rev a document may carry: none, an empty string, strings,
\* a number
DocIds == {Nil, StrV(<<>>), StrV(<<"x">>), StrV(<<"a", " ", "b">>), IntV(5)}
DocRevs == {Nil, StrV(<<>>), StrV(<<"1", "-", "x">>), IntV(5)}
Documents == [id : DocIds, rev : DocRevs, n : {1}]

\* The calls made on the database
DBCalls ==
    {[f |-> "NewDatabase"]}
        \cup {[f |-> "Insert", d |-> d] : d \in Documents}
        \cup {[f |-> "Edit", d |-> d] : d \in Documents}
        \cup {[f |-> "EditWith", d |-> d, id |-> i, rev |-> r] :
                 d \in Documents,
                 i \in {<<>>, <<"x">>},
                 r \in {<<>>, <<"1", "-", "x">>}}

InitDB ==
    /\ pc = "db"
    /\ p \in {d \in Descriptors : d.changesFailDelay = defaultChangeDelay}
    /\ options = NoOptions
    /\ since = Nil
    /\ heartbeatTime = 0
    /\ timeout = Zero64
    /\ params = NoOptions
    /\ conn = 0
    /\ open = {}
    /\ bodies = {}
    /\ tc = NoTC
    /\ retval = "none"
    /\ reqs = <<>>
    /\ outcomes = <<>>
    /\ calls = <<>>
    /\ returned = <<>>
    /\ sleeps = <<>>
    /\ fin \in DBCalls
    /\ fout = NoOutput
    /\ now = 0
    /\ sock = NoSock
    /\ body = NoBody
    /\ rd = NoRead
    /\ rlog = <<>>
    /\ blog = <<>>

\* An operation on a document runs to its end; the requests it sent are
\* logged.
Returns(res) ==
    /\ rlog' = rlog \o res.reqs
    /\ fout' = [f |-> fin.f, id |-> res.id, rev |-> res.rev, err |-> res.err]
    /\ pc' = "db.returned"
    /\ UNCHANGED <<prog, tc, loop, fin, now, sock, body, rd>>

CallInsert ==
    /\ pc = "db"
    /\ fin.f = "Insert"
    /\ \E r \in Replies :
          /\ Returns(Insert(p, fin.d, r))
          /\ blog' = <<r>>

CallEdit ==
    /\ pc = "db"
    /\ fin.f = "Edit"
    /\ \E r \in Replies :
          /\ Returns(Edit(p, fin.d, r))
          /\ blog' = <<r>>

CallEditWith ==
    /\ pc = "db"
    /\ fin.f = "EditWith"
    /\ \E r \in Replies :
          /\ Returns(EditWith(p, fin.d, fin.id, fin.rev, r))
          /\ blog' = <<r>>

\* A step of NewDatabase: the request sent and the answer got are logged.
Step(method, u, answer, next) ==
    /\ rlog' = Append(rlog, Request(method, u, Nil))
    /\ blog' = Append(blog, answer)
    /\ pc' = next
    /\ UNCHANGED <<prog, tc, loop, fin, now, sock, body, rd>>

\* NewDatabase: db.Running(), which asks for _all_dbs and wants a list
\* that is not empty
Running ==
    /\ pc = "db"
    /\ fin.f = "NewDatabase"
    /\ \E a \in {"err", "empty", "dbs"} :
          /\ Step("GET", BaseURL(p) \o <<"/", "_", "a", "l", "l", "_", "d", "b", "s">>,
                  a, IF a = "dbs" THEN "db.exists" ELSE "db.returned")
          /\ fout' = IF a = "dbs" THEN fout
                     ELSE [f |-> fin.f, id |-> <<>>, rev |-> <<>>, err |-> "errNotRunning"]

\* Exists going on to create the database whatever the answer
ExistsAlwaysCreates ==
    /\ pc = "db.exists"
    /\ \E a \in {"err", "other", "same"} :
          /\ Step("GET", DBURL(p), a, "db.create")
          /\ fout' = fout

\* NewDatabase: db.Exists(), which asks for the database and wants its
\* name back
Exists ==
    /\ pc = "db.exists"
    /\ \E a \in {"err", "other", "same"} :
          /\ Step("GET", DBURL(p), a, IF a = "same" THEN "db.returned" ELSE "db.create")
          /\ fout' = IF a = "same"
                     THEN [f |-> fin.f, id |-> <<>>, rev |-> <<>>, err |-> "nil"]
                     ELSE fout

\* NewDatabase: db.createDatabase()
CreateDatabase ==
    /\ pc = "db.create"
    /\ \E a \in {"err", "notok", "ok"} :
          /\ Step("PUT", DBURL(p), a, "db.returned")
          /\ fout' = [f |-> fin.f, id |-> <<>>, rev |-> <<>>,
                      err |-> CASE a = "err" -> "interact"
                                [] a = "notok" -> "errNewDB"
                                [] OTHER -> "nil"]

NextDB ==
    \/ CallInsert
    \/ CallEdit
    \/ CallEditWith
    \/ Running
    \/ Exists
    \/ CreateDatabase

SpecDB == InitDB /\ [][NextDB]_vars

\* ------------------------------------------------------------------ claims

IsFailure(o) == o.kind \in {"badurl", "dialfail", "reqfail"}

\* The attempts before attempt a that ended in one of the given ways
EndedBefore(a, kinds) ==
    Cardinality({n \in 1..(a - 1) : outcomes[n].kind \in kinds})

\* The failed attempts so far
Failures == EndedBefore(Len(outcomes) + 1, {"badurl", "dialfail", "reqfail"})

\* C1: when the handler returns the terminal cursor (nil) on its first
\* invocation, it is invoked exactly once, no client.Get follows that
\* invocation, and Changes goes on to return nil.
C1_TerminalOnFirstCall ==
    (Len(returned) >= 1 /\ returned[1] = Nil) =>
        /\ Len(calls) = 1
        /\ Len(returned) = 1
        /\ Len(reqs) = calls[1].attempt
        /\ pc \in {"closeConn", "closeBody", "examine", "done"}
        /\ (pc = "done" => retval = "nil")

C1_Witness ==
    /\ pc = "done"
    /\ retval = "nil"
    /\ Len(reqs) = 1
    /\ Len(calls) = 1
    /\ returned = <<Nil>>

\* C2: a request made after the handler returned the non-terminal cursor c
\* carries since = Sprintf("%v", c), whatever the options say about since;
\* the request made after the k-th return carries the k-th cursor.
C2_CursorBecomesSince ==
    \A n \in 1..Len(reqs) :
        reqs[n].ncur > 0 =>
            /\ returned[reqs[n].ncur] # Nil
            /\ "since" \in DOMAIN reqs[n].params
            /\ reqs[n].params["since"] = Sprintv(returned[reqs[n].ncur])

C2_Witness ==
    /\ Len(reqs) = 3
    /\ reqs[2].ncur = 1
    /\ reqs[3].ncur = 2
    /\ returned[1] # returned[2]
    /\ "since" \in DOMAIN options
    /\ options["since"] # Nil
    /\ reqs[3].params["since"] # Sprintv(options["since"])

\* C3 as stated: with k failures of the dial hook before the handler is
\* first invoked, exactly k sleeps of changesFailDelay precede that
\* invocation, and the successful attempt carries the since of the first.
C3_Original ==
    Len(calls) >= 1 =>
        LET a == calls[1].attempt IN
        /\ calls[1].sleeps = EndedBefore(a, {"dialfail"})
        /\ \A n \in 1..calls[1].sleeps : sleeps[n] = p.changesFailDelay
        /\ reqs[a].params = reqs[1].params

\* C3, amended: the sleeps before the handler is first invoked are as many
\* as the failed attempts before it, the k failures of the dial hook and the
\* requests that failed on a dialled socket; each is of changesFailDelay,
\* and the successful attempt carries the cursor the call started with.
C3_SleepPerFailedAttempt ==
    Len(calls) >= 1 =>
        LET a == calls[1].attempt IN
        /\ calls[1].sleeps = EndedBefore(a, {"dialfail"}) + EndedBefore(a, {"reqfail"})
        /\ calls[1].sleeps = a - 1
        /\ \A n \in 1..calls[1].sleeps : sleeps[n] = p.changesFailDelay
        /\ reqs[a].params = reqs[1].params
        /\ IF "since" \in DOMAIN options /\ options["since"] # Nil
           THEN /\ "since" \in DOMAIN reqs[a].params
                /\ reqs[a].params["since"] = Sprintv(options["since"])
           ELSE "since" \notin DOMAIN reqs[a].params

C3_Witness ==
    /\ Len(calls) = 1
    /\ calls[1].attempt = 3
    /\ outcomes[1].kind = "dialfail"
    /\ outcomes[2].kind = "reqfail"
    /\ "since" \in DOMAIN reqs[3].params

\* C4: an attempt that failed (the dial, the request before the stream, or
\* a request that cannot be built) is not given to the handler and does not
\* end the feed: the handler's invocations are the responses, each failure
\* is followed by one sleep and the loop is back at its top.
C4_FailureNeverSurfaces ==
    /\ \A c \in 1..Len(calls) : ~IsFailure(outcomes[calls[c].attempt])
    /\ Len(calls) = Len(outcomes) - Failures
    /\ Len(sleeps) = Failures - (IF pc = "sleep" THEN 1 ELSE 0)
    /\ pc = "sleep" => IsFailure(outcomes[Len(outcomes)])
    /\ (/\ Len(outcomes) >= 1
        /\ Len(outcomes) = Len(reqs)
        /\ IsFailure(outcomes[Len(outcomes)]))
            => (pc \in {"sleep", "loop"} /\ retval = "none")

C4_Witness ==
    /\ Len(reqs) = 3
    /\ outcomes[1].kind = "badurl"
    /\ outcomes[2].kind = "badurl"
    /\ Len(sleeps) = 2
    /\ calls = <<>>

\* C5: a response whose status is not 2xx is handled as a connection
\* failure: the handler is not invoked for it and a backoff sleep follows.
C5_Non2xxIsAFailure ==
    /\ \A c \in 1..Len(calls) :
          outcomes[calls[c].attempt].status \in 200..299
    /\ \A n \in 1..Len(outcomes) :
          (outcomes[n].kind = "resp" /\ outcomes[n].status \notin 200..299)
              => pc = "sleep" \/ Len(sleeps) >= 1

\* C6: after the handler returns -1 Changes makes no further request.
C6_MinusOneEndsTheFeed ==
    /\ \A n \in 1..Len(reqs) :
          reqs[n].ncur > 0 => returned[reqs[n].ncur] # IntV(-1)
    /\ (pc = "loop" /\ Len(returned) >= 1)
          => returned[Len(returned)] # IntV(-1)

\* C7: Changes has returned only when the last thing before it was a
\* handler invocation that returned the terminal cursor; failed attempts,
\* however many in a row, leave it running.
C7_ReturnsOnlyOnTerminal ==
    /\ (pc = "done") = (retval # "none")
    /\ pc = "done" =>
          /\ Len(returned) >= 1
          /\ returned[Len(returned)] = Nil
          /\ Len(calls) = Len(returned)
          /\ calls[Len(calls)].attempt = Len(reqs)
          /\ Len(outcomes) = Len(reqs)
          /\ ~IsFailure(outcomes[Len(outcomes)])

C7_Witness ==
    /\ Len(outcomes) >= 3
    /\ \A n \in 1..Len(outcomes) : outcomes[n].kind \in {"dialfail", "reqfail"}
    /\ Len(sleeps) = Len(outcomes)
    /\ pc = "loop"
    /\ retval = "none"

\* C8: when the returned cursor is examined the iteration's body and socket
\* are closed, so at every invocation of the handler the only socket and
\* body open are those of the invocation's own iteration.
C8_ClosedBeforeExamine ==
    /\ pc \in {"examine", "loop", "get", "sleep", "done"}
          => (open = {} /\ bodies = {})
    /\ pc = "examine" => (conn \notin open /\ tc.body \notin bodies)
    /\ \A c \in 1..Len(calls) :
          /\ calls[c].open = {calls[c].attempt}
          /\ calls[c].bodies = {calls[c].attempt}

C8_Witness ==
    /\ pc = "handler"
    /\ Len(calls) >= 2
    /\ calls[1].attempt + 1 = calls[2].attempt
    /\ open = {conn}

C10_Original ==
    /\ (Len(outcomes) >= 1 /\ outcomes[1].kind = "badurl")
          => (pc = "done" /\ retval = "err")
    /\ pc = "done" => ((retval = "err") = (outcomes[1].kind = "badurl"))

\* C10, amended: Changes never returns an error: whenever it returns it
\* returns nil, and a first request that cannot be constructed is retried
\* after the backoff like any failed attempt.
C10_NeverAnError ==
    /\ retval \in {"none", "nil"}
    /\ pc = "done" => retval = "nil"
    /\ (Len(outcomes) >= 1 /\ outcomes[1].kind = "badurl")
          => (pc # "done" /\ retval = "none"
              /\ Len(sleeps) >= Len(outcomes) - 1)

C10_Witness ==
    /\ outcomes # <<>>
    /\ outcomes[1].kind = "badurl"
    /\ Len(sleeps) >= 1
    /\ Len(reqs) >= 2
    /\ retval = "none"

\* Sign extension of an int64 to twelve bytes
Widen(x) == x \o (IF IsNeg64(x) THEN <<255, 255, 255, 255>> ELSE <<0, 0, 0, 0>>)

\* 2h milliseconds in nanoseconds, computed on twelve bytes, where it does
\* not wrap for any int64 h
TwiceInMs(h) == MulSmall(MulSmall(MulSmall(Widen(h), 2, 0), 1000, 0), 1000, 0)

\* C11: the read timeout is 2*h milliseconds for every heartbeat h > 0 of
\* the int64 range, and 60,000 ms for every h <= 0.
C11_TimeoutIsTwiceHeartbeat ==
    fout.f = "timeout" =>
        IF Pos64(fin.h)
        THEN Widen(fout.v) = TwiceInMs(fin.h)
        ELSE fout.v = Dec64(<<"6", "0", "0", "0", "0", "0", "0", "0", "0", "0", "0">>)

\* C15: a sequence the server sent, decoded and returned by the handler, is
\* the since parameter of the next request, character for character.
C15_SequenceResubmittedVerbatim ==
    fout.f = "resubmit" =>
        /\ "since" \in DOMAIN fout.v
        /\ fout.v["since"] = fin.tok.text

\* The cursor in effect when request n was built
CursorAt(n) ==
    IF reqs[n].ncur > 0 THEN returned[reqs[n].ncur]
    ELSE IF "since" \in DOMAIN options THEN options["since"] ELSE Nil

\* C12: a request has a heartbeat parameter, of value h, exactly when the
\* configured heartbeat h is positive; since=858245, heartbeat=3999 give a
\* request with both, heartbeat=-3999 one with no heartbeat.
C12_HeartbeatParam ==
    \A n \in 1..Len(reqs) :
        LET q == reqs[n].params
            h == i64defopt(options, "heartbeat", 5000)
        IN /\ ("heartbeat" \in DOMAIN q) = (h > 0)
           /\ h > 0 => q["heartbeat"] = FormatInt(h)
           /\ ("heartbeat" \in DOMAIN options /\ options["heartbeat"] = IntV(3999))
                 => /\ q["heartbeat"] = <<"3", "9", "9", "9">>
                    /\ n = 1 => q["since"] = <<"8", "5", "8", "2", "4", "5">>
           /\ ("heartbeat" \in DOMAIN options /\ options["heartbeat"] = IntV(-3999))
                 => "heartbeat" \notin DOMAIN q

C12_Witness ==
    /\ Len(reqs) >= 2
    /\ "heartbeat" \in DOMAIN options
    /\ options["heartbeat"] = IntV(-3999)
    /\ "heartbeat" \notin DOMAIN reqs[2].params
    /\ "since" \in DOMAIN reqs[2].params

C14_Original ==
    \A n \in 1..Len(reqs) :
        LET q == reqs[n].params IN
        IF CursorAt(n) \in {Nil, IntV(0), StrV(<<>>)}
        THEN IF "since" \in DOMAIN options /\ options["since"] # Nil
             THEN "since" \in DOMAIN q /\ q["since"] = Sprintv(options["since"])
             ELSE "since" \notin DOMAIN q
        ELSE "since" \in DOMAIN q /\ q["since"] = Sprintv(CursorAt(n))

\* C14, amended: since is overridden from the cursor whenever the cursor is
\* not nil, a cursor of 0 or "" included; with a nil cursor, which is the
\* cursor only while the options supply no since, the request has none.
C14_OverrideUnlessNil ==
    \A n \in 1..Len(reqs) :
        LET q == reqs[n].params IN
        IF CursorAt(n) = Nil
        THEN /\ "since" \notin DOMAIN q
             /\ reqs[n].ncur = 0
             /\ ("since" \in DOMAIN options => options["since"] = Nil)
        ELSE "since" \in DOMAIN q /\ q["since"] = Sprintv(CursorAt(n))

C14_Witness ==
    /\ Len(reqs) >= 2
    /\ reqs[2].ncur = 1
    /\ returned[1] = IntV(0)
    /\ "since" \in DOMAIN options
    /\ options["since"] = IntV(858245)
    /\ reqs[2].params["since"] = <<"0">>

\* C20: whenever the handler is invoked, the timeoutClient's underlying
\* socket is the socket, not nil, that the dial hook returned in the same
\* iteration, and no socket is open that the dial hook did not return.
C20_SocketFromDialHook ==
    /\ \A c \in 1..Len(calls) :
          /\ calls[c].underlying # 0
          /\ calls[c].underlying = calls[c].attempt
          /\ calls[c].underlying \in calls[c].open
    /\ pc = "handler" => (tc.underlying = conn /\ conn = Len(reqs) /\ conn \in open)
    /\ open \subseteq {n \in 1..Len(reqs) : n > Len(outcomes) \/ outcomes[n].kind \in {"reqfail", "resp"}}

C20_Witness ==
    /\ pc = "handler"
    /\ Len(calls) = 2
    /\ calls[2].attempt = 3
    /\ tc.underlying = 3

\* The SetReadDeadline calls one Read makes
DeadlinesPerRead == IF Pos64(tc.readTimeout) THEN 1 ELSE 0

\* The Read calls entered so far
ReadsEntered == Len(rlog) + (IF rd.at = "idle" THEN 0 ELSE 1)

\* C16: every Read with a positive readTimeout calls SetReadDeadline
\* exactly once, before it calls the body's Read; a Read with a zero or
\* negative readTimeout never calls it.
C16_OneDeadlinePerRead ==
    pc = "tc" =>
        /\ sock.sets = DeadlinesPerRead * ReadsEntered
        /\ rd.at # "idle" => rd.sets = DeadlinesPerRead
        /\ rd.at \in {"body", "return"} => rd.pre = DeadlinesPerRead
        /\ \A i \in 1..Len(rlog) :
              /\ rlog[i].sets = DeadlinesPerRead
              /\ rlog[i].pre = DeadlinesPerRead

C16_Witness ==
    /\ pc = "tc"
    /\ Pos64(tc.readTimeout)
    /\ Len(rlog) = 2
    /\ sock.sets = 2
    /\ rlog[2].pre = 1

\* C17: with a positive readTimeout, a Read on a socket that is silent
\* after the response header does not wait beyond readTimeout: it fails
\* with the deadline error (or at once, the body being closed).
C17_SilentReadTimesOut ==
    (pc = "tc" /\ sock.silent /\ Pos64(tc.readTimeout)) =>
        /\ rd.at = "body" => now <= rd.start + Nanos(tc.readTimeout)
        /\ \A i \in 1..Len(rlog) :
              /\ rlog[i].err \in {"timeout", "closed"}
              /\ rlog[i].took <= Nanos(tc.readTimeout)
              /\ rlog[i].n = 0

C17_Witness ==
    /\ pc = "tc"
    /\ sock.silent
    /\ Pos64(tc.readTimeout)
    /\ Len(rlog) = 2
    /\ rlog[2].err = "timeout"
    /\ rlog[1].took = Nanos(tc.readTimeout)
    /\ rlog[2].took = Nanos(tc.readTimeout)

\* C18: Close closes the body and only the body: the socket stays open and
\* keeps its deadline, and the timeoutClient's readTimeout and socket
\* reference stay as they were.
C18_CloseClosesBodyOnly ==
    pc = "tc" =>
        /\ body.closed = (body.closes > 0)
        /\ ~sock.closed
        /\ sock.sets = DeadlinesPerRead * ReadsEntered
        /\ tc = fin.tc

C18_Witness ==
    /\ pc = "tc"
    /\ body.closes = 1
    /\ body.closed
    /\ ~sock.closed
    /\ Len(rlog) = 2
    /\ rlog[1].err = "nil"
    /\ rlog[2].err = "closed"
    /\ tc.readTimeout = ToInt64(3)

\* C19: every Read makes exactly one Read of the body, with the caller's
\* buffer, and returns its n and err as they are, the end of the stream
\* and the closed body's error included.
C19_ReadDelegates ==
    pc = "tc" =>
        /\ body.reads = Len(rlog) + (IF rd.at \in {"body", "return"} THEN 1 ELSE 0)
        /\ Len(blog) = Len(rlog) + (IF rd.at = "return" THEN 1 ELSE 0)
        /\ \A i \in 1..Len(rlog) :
              /\ rlog[i].buf = blog[i].buf
              /\ rlog[i].n = blog[i].n
              /\ rlog[i].err = blog[i].err

C19_Witness ==
    /\ pc = "tc"
    /\ Len(rlog) = 2
    /\ rlog[1].err = "EOF"
    /\ rlog[1].n = 1
    /\ rlog[1].buf = 1
    /\ rlog[2].err = "closed"

\* C22: a Changes envelope encoded and then decoded by ReadAllChanges has
\* the same entries in the same order, with id, changed revisions, deleted
\* flag and sequence equal to the originals, and the same last sequence.
C22_RoundTrip ==
    fout.f = "roundtrip" =>
        /\ Len(fout.v.Results) = Len(fin.env.Results)
        /\ \A n \in 1..Len(fin.env.Results) :
              /\ fout.v.Results[n].Id = fin.env.Results[n].Id
              /\ fout.v.Results[n].ChangedRevs = fin.env.Results[n].ChangedRevs
              /\ fout.v.Results[n].Deleted = fin.env.Results[n].Deleted
              /\ fout.v.Results[n].Sequence = fin.env.Results[n].Sequence
        /\ fout.v.LastSequence = fin.env.LastSequence

\* The integer a float64 given in tenths has before its point
Whole(m) ==
    CHOOSE z \in -1000..1000 :
        IF m >= 0 THEN 10 * z <= m /\ m < 10 * z + 10
        ELSE 10 * z - 10 < m /\ m <= 10 * z

\* C30: i64defopt returns the value of an int or int64 entry, a float64
\* entry cut toward zero, the value of a base-10 integer string, and def
\* for an absent key, a string that does not parse and any other type.
C30_I64DefOpt ==
    fout.f = "i64" =>
        LET v == fin.opts[fin.k] IN
        fout.v =
            IF fin.k \notin DOMAIN fin.opts THEN fin.def
            ELSE CASE v.t \in {"int", "int64"} -> v.i
                   [] v.t = "float64" -> IF v.s = <<>> THEN v.i ELSE Whole(v.i)
                   [] v.t = "string" ->
                        IF ParseIntOK(v.s) THEN ParseInt(v.s) ELSE fin.def
                   [] OTHER -> fin.def

C30_Witness ==
    /\ fout.f = "i64"
    /\ fin.k = "g"
    /\ fin.opts["g"] = FracV(-27)
    /\ fout.v = -2

\* C21: no step of Changes changes the Database descriptor or the options
\* map: the descriptor never changes and the options change only by an
\* edit of the handler itself.
C21_DescriptorAndOptionsKept ==
    [][/\ p' = p
       /\ options' # options => (pc = "handler" /\ pc' = "handler")]_vars

C21_Witness ==
    /\ pc = "done"
    /\ Len(reqs) = 3
    /\ p.Port = <<>>
    /\ "start_key" \in DOMAIN options
    /\ DOMAIN options = {"since", "start_key", "heartbeat"}
    /\ options["since"] = IntV(858245)

\* C26: with a handler that returns the terminal cursor, Changes returns
\* once an attempt reaches the handler; and a first attempt that failed is
\* followed by one sleep and a second attempt.
C26_EventuallyReturns ==
    /\ (pc = "handler") ~> (pc = "done" /\ retval = "nil")
    /\ (Len(outcomes) = 1 /\ IsFailure(outcomes[1]))
          ~> (Len(reqs) = 2 /\ Len(sleeps) = 1)

C26_Witness ==
    /\ pc = "done"
    /\ retval = "nil"
    /\ Len(reqs) = 2
    /\ IsFailure(outcomes[1])
    /\ outcomes[2].kind = "resp"
    /\ returned = <<Nil>>
    /\ Len(sleeps) = 1

\* C27: there are as many sleeps as failed attempts, each right after its
\* failure: a request is built after as many sleeps as attempts failed
\* before it, and the request that follows a handler call is built with no
\* sleep in between.
C27_SleepOnlyAfterFailure ==
    /\ Len(sleeps) = Failures - (IF pc = "sleep" THEN 1 ELSE 0)
    /\ \A n \in 1..Len(reqs) :
          /\ reqs[n].nsleep = EndedBefore(n, {"badurl", "dialfail", "reqfail"})
          /\ (n > 1 /\ outcomes[n - 1].kind = "resp") =>
                /\ reqs[n].nsleep = reqs[n - 1].nsleep
                /\ returned[reqs[n].ncur] # Nil

C27_Witness ==
    /\ Len(reqs) = 3
    /\ outcomes[1].kind = "dialfail"
    /\ outcomes[2].kind = "resp"
    /\ reqs[3].nsleep = 1
    /\ reqs[3].ncur = 1
    /\ Len(sleeps) = 1

\* The read timeout of the call, from the heartbeat of its first request
FirstTimeout ==
    IF "heartbeat" \in DOMAIN reqs[1].params
    THEN timeoutFor(ToInt64(ParseNat(reqs[1].params["heartbeat"])))
    ELSE timeMinute

\* C28: with a handler that edits the options between iterations, every
\* request has the heartbeat parameter of the first request and every
\* reader the read timeout of the first, the other options are taken as
\* they are when the request is built, and since is the handler's cursor
\* whatever the since option has become.
C28_ComputedOnceOnEntry ==
    /\ \A n \in 1..Len(reqs) :
          /\ ("heartbeat" \in DOMAIN reqs[n].params)
                = ("heartbeat" \in DOMAIN reqs[1].params)
          /\ "heartbeat" \in DOMAIN reqs[n].params =>
                reqs[n].params["heartbeat"] = reqs[1].params["heartbeat"]
    /\ pc = "handler" => tc.readTimeout = FirstTimeout
    /\ pc = "get" =>
          /\ \A k \in DOMAIN options \ {"since", "heartbeat"} :
                k \in DOMAIN params /\ params[k] = Sprintv(options[k])
          /\ Len(returned) > 0 =>
                params["since"] = Sprintv(returned[Len(returned)])

C28_Witness ==
    /\ pc = "get"
    /\ Len(reqs) = 2
    /\ DOMAIN options = {"since", "start_key", "heartbeat", "feed"}
    /\ options["heartbeat"] = IntV(7)
    /\ options["since"] = IntV(3)
    /\ params["heartbeat"] = <<"3", "9", "9", "9">>
    /\ params["feed"] = <<"x">>
    /\ params["since"] = <<"1", "2">>

\* The options give no heartbeat: no entry, a nil, a string that is no
\* number or a value of an unsupported type
NoHeartbeatGiven ==
    \/ "heartbeat" \notin DOMAIN options
    \/ options["heartbeat"].t \in {"nil", "bool"}
    \/ /\ options["heartbeat"].t = "string"
       /\ \E n \in 1..Len(options["heartbeat"].s) :
             ~IsDigit(options["heartbeat"].s[n])

\* C29: when the options give no heartbeat, the heartbeat is 5000 ms:
\* every request carries heartbeat=5000 and the read timeout is 10 s.
C29_DefaultHeartbeat ==
    (NoHeartbeatGiven /\ pc # "entry") =>
        /\ heartbeatTime = 5000
        /\ timeout = Dec64(<<"1", "0", "0", "0", "0", "0", "0", "0", "0", "0", "0">>)
        /\ \A n \in 1..Len(reqs) :
              /\ "heartbeat" \in DOMAIN reqs[n].params
              /\ reqs[n].params["heartbeat"] = <<"5", "0", "0", "0">>
        /\ pc = "handler" => tc.readTimeout = timeout

C29_Witness ==
    /\ pc = "handler"
    /\ Len(reqs) = 2
    /\ "heartbeat" \in DOMAIN options
    /\ options["heartbeat"] = StrV(<<"5", "s">>)
    /\ reqs[2].params["heartbeat"] = <<"5", "0", "0", "0">>
    /\ tc.readTimeout = Dec64(<<"1", "0", "0", "0", "0", "0", "0", "0", "0", "0", "0">>)

\* C23: NewDatabase asks first whether the server runs and, if it does
\* not, returns errNotRunning with no further request; otherwise it asks
\* whether the database exists, sends the PUT that creates it only if it
\* does not, and returns the error of that PUT when it fails.
C23_NewDatabaseOrder ==
    (pc \in {"db", "db.exists", "db.create", "db.returned"} /\ fin.f = "NewDatabase") =>
        /\ Len(rlog) >= 1 =>
              /\ rlog[1].method = "GET"
              /\ rlog[1].url = BaseURL(p) \o <<"/", "_", "a", "l", "l", "_", "d", "b", "s">>
              /\ blog[1] # "dbs" =>
                    (Len(rlog) = 1 /\ pc = "db.returned" /\ fout.err = "errNotRunning")
        /\ Len(rlog) >= 2 =>
              /\ blog[1] = "dbs"
              /\ rlog[2] = Request("GET", DBURL(p), Nil)
              /\ blog[2] = "same" =>
                    (Len(rlog) = 2 /\ pc = "db.returned" /\ fout.err = "nil")
        /\ Len(rlog) >= 3 =>
              /\ blog[2] # "same"
              /\ rlog[3] = Request("PUT", DBURL(p), Nil)
              /\ Len(rlog) = 3
              /\ pc = "db.returned"
              /\ blog[3] = "err" => fout.err = "interact"
              /\ blog[3] = "notok" => fout.err = "errNewDB"
              /\ blog[3] = "ok" => fout.err = "nil"
        /\ pc = "db.returned" =>
              \/ blog[1] # "dbs"
              \/ Len(rlog) >= 2 /\ (blog[2] = "same" \/ Len(rlog) = 3)

C23_Witness ==
    /\ pc = "db.returned"
    /\ fin.f = "NewDatabase"
    /\ Len(rlog) = 3
    /\ blog = <<"dbs", "other", "err">>
    /\ fout.err = "interact"

\* A document's _id or _rev is a string that is not empty
Given(v) == v.t = "string" /\ v.s # <<>>

====
